---- MODULE Spec2Model ----
(***************************************************************************)
(* Model of gps-attendance-app (app.py): the Flask endpoint /check_access, *)
(* the haversine distance it computes, and the browser page's script.      *)
(*                                                                         *)
(* Python floats are IEEE-754 binary64.  A finite float is modelled as a   *)
(* record [s, m, e] standing for (-1)^s * m * 2^e, where m is zero or has  *)
(* exactly 53 bits.  A 53-bit significand does not fit a 32-bit integer,   *)
(* so significands are naturals written as sequences of 15-bit limbs,      *)
(* least significant first, without leading zero limbs (zero is << >>).    *)
(* +, -, *, / and sqrt round to nearest, ties to even, as IEEE-754         *)
(* requires.  sin, cos, atan2 and ** 2 are calls of the platform's libm,   *)
(* which IEEE-754 does not bind to the nearest float: a call returns one   *)
(* of the floats next to the exact value, the same one whenever it is made *)
(* again.  A str is the sequence of its code points, and float() reads it  *)
(* as CPython does.  Zeros keep their sign; values below 2^-1022 are subnormal, with *)
(* fewer bits; results of 2^1024 and above overflow; infinities are        *)
(* [s, inf] and NaN is [nan].                                              *)
(***************************************************************************)
EXTENDS Integers, Sequences, FiniteSets, TLC

----------------------------------------------------------------------------
(* Naturals of arbitrary size, as limb sequences.                          *)

W == 32768

LimbBits == 15

\* TRUE, once v has been evaluated.  TLC evaluates the argument of an
\* operator where it is first used, which may be deep inside the operator
\* and inside the evaluation of another pending argument.  An operator that
\* starts with CASE Evaluated(v) has its argument v evaluated at its entry,
\* and a loop that continues while Evaluated(acc) has the value of every
\* round evaluated before the next round starts.
Evaluated(v) == v = v

RECURSIVE BigNorm(_)
BigNorm(a) ==
    IF Len(a) = 0 THEN a
    ELSE IF a[Len(a)] = 0 THEN BigNorm(SubSeq(a, 1, Len(a) - 1))
    ELSE a

RECURSIVE BigOfInt(_)
BigOfInt(n) ==
    IF n = 0 THEN << >> ELSE <<n % W>> \o BigOfInt(n \div W)

Limb(a, i) == IF i <= Len(a) THEN a[i] ELSE 0

Max2(m, n) == IF m >= n THEN m ELSE n

\* limb i of a + b before the carries
AddAt(a, b, i) == Limb(a, i) + Limb(b, i)

\* a carry enters limb i: a limb below i overflows, and every limb between
\* the two passes the carry on
AddCarry(a, b, i) ==
    \E j \in 1..(i - 1) :
        /\ AddAt(a, b, j) >= W
        /\ \A k \in (j + 1)..(i - 1) : AddAt(a, b, k) = W - 1

\* a + b in n limbs
BigAddTo(a, b, n) ==
    SubSeq([i \in 1..n |->
               (AddAt(a, b, i) + (IF AddCarry(a, b, i) THEN 1 ELSE 0)) % W], 1, n)

BigAdd(a, b) == BigNorm(BigAddTo(a, b, Max2(Len(a), Len(b)) + 1))

\* limb i of a - b before the borrows
SubAt(a, b, i) == a[i] - Limb(b, i)

\* limb i lends to a limb below it
SubBorrow(a, b, i) ==
    \E j \in 1..(i - 1) :
        /\ SubAt(a, b, j) < 0
        /\ \A k \in (j + 1)..(i - 1) : SubAt(a, b, k) = 0

\* a - b for a >= b
BigSub(a, b) ==
    BigNorm(SubSeq([i \in 1..Len(a) |->
                       (SubAt(a, b, i) - (IF SubBorrow(a, b, i) THEN 1 ELSE 0) + W) % W],
                   1, Len(a)))

\* -1, 0 or 1 as a < b, a = b, a > b; i runs from the top limb down
RECURSIVE BigCmpAt(_, _, _)
BigCmpAt(a, b, i) ==
    IF i = 0 THEN 0
    ELSE IF a[i] < b[i] THEN -1
    ELSE IF a[i] > b[i] THEN 1
    ELSE BigCmpAt(a, b, i - 1)

BigCmp(a, b) ==
    IF Len(a) < Len(b) THEN -1
    ELSE IF Len(a) > Len(b) THEN 1
    ELSE BigCmpAt(a, b, Len(a))

\* the natural whose limb k is c[k], for c[k] that may exceed a limb: the
\* low parts plus the high parts one limb up
CarryColumns(c) ==
    BigAdd(SubSeq([k \in 1..Len(c) |-> c[k] % W], 1, Len(c)),
           <<0>> \o SubSeq([k \in 1..Len(c) |-> c[k] \div W], 1, Len(c)))

\* a * d for a limb d
BigMulLimb(a, d) ==
    CarryColumns(SubSeq([i \in 1..Len(a) |-> a[i] * d], 1, Len(a)))

\* what a[i] * b adds to limb k of a * b: the low part of a[i] * b[k+1-i]
\* and the high part of a[i] * b[k-i]
MulTerm(a, b, k, i) ==
    (IF k + 1 - i \in 1..Len(b) THEN (a[i] * b[k + 1 - i]) % W ELSE 0)
    + (IF k - i \in 1..Len(b) THEN (a[i] * b[k - i]) \div W ELSE 0)

\* what a[1..i] * b adds to limb k
RECURSIVE MulColumn(_, _, _, _)
MulColumn(a, b, k, i) ==
    IF i = 0 THEN 0 ELSE MulTerm(a, b, k, i) + MulColumn(a, b, k, i - 1)

BigMul(a, b) ==
    CarryColumns(SubSeq([k \in 1..(Len(a) + Len(b)) |-> MulColumn(a, b, k, Len(a))],
                        1, Len(a) + Len(b)))

Zeros(k) == [i \in 1..k |-> 0]

\* a * W^k
BigShlLimbs(a, k) == IF Len(a) = 0 THEN a ELSE Zeros(k) \o a

\* a \div W^k
BigShrLimbs(a, k) == IF k >= Len(a) THEN << >> ELSE SubSeq(a, k + 1, Len(a))

Reverse(a) == SubSeq([i \in 1..Len(a) |-> a[Len(a) + 1 - i]], 1, Len(a))

\* The limbs of a \div d for 0 < d <= W, top limb first; i runs from the
\* top limb of a down, r is the remainder of the limbs above i
RECURSIVE BigDivLimbC(_, _, _, _)
BigDivLimbC(a, d, i, r) ==
    IF i = 0 THEN << >>
    ELSE <<(r * W + a[i]) \div d>> \o BigDivLimbC(a, d, i - 1, (r * W + a[i]) % d)

BigDivLimb(a, d) == BigNorm(Reverse(BigDivLimbC(a, d, Len(a), 0)))

\* a * 2^k
BigShl(a, k) == BigShlLimbs(BigMulLimb(a, 2 ^ (k % LimbBits)), k \div LimbBits)

\* a \div 2^k for k less than a limb: limb i gives its high bits, limb i + 1
\* its low k bits
BigShrBits(a, k) ==
    BigNorm(SubSeq([i \in 1..Len(a) |->
                       a[i] \div (2 ^ k)
                       + (Limb(a, i + 1) % (2 ^ k)) * 2 ^ (LimbBits - k)],
                   1, Len(a)))

\* a \div 2^k
BigShr(a, k) == BigShrBits(BigShrLimbs(a, k \div LimbBits), k % LimbBits)

\* the number of bits of a limb n
IntBitLen(n) == Cardinality({k \in 0..(LimbBits - 1) : 2 ^ k <= n})

BigBitLen(a) ==
    IF Len(a) = 0 THEN 0 ELSE (Len(a) - 1) * LimbBits + IntBitLen(a[Len(a)])

BigIsOdd(a) == Len(a) > 0 /\ a[1] % 2 = 1

\* a % 2^k
BigLowBits(a, k) ==
    IF k \div LimbBits >= Len(a) THEN a
    ELSE BigNorm(SubSeq(a, 1, k \div LimbBits)
                 \o <<a[k \div LimbBits + 1] % (2 ^ (k % LimbBits))>>)

\* 2^k
BigPow2(k) == BigShlLimbs(<<2 ^ (k % LimbBits)>>, k \div LimbBits)

\* the largest limb d with d*b <= r, counting down from the estimate d
RECURSIVE QDigit(_, _, _)
QDigit(r, b, d) ==
    IF BigCmp(BigMulLimb(b, d), r) <= 0 THEN d ELSE QDigit(r, b, d - 1)

\* The estimate of the next quotient limb from the two top limbs of r and
\* the top limb of b (r < b*W).  With b's top limb at least W/2 it is the
\* quotient limb or up to 2 more.
QEstimate(r, b) ==
    IF (Limb(r, Len(b) + 1) * W + Limb(r, Len(b))) \div b[Len(b)] >= W
    THEN W - 1
    ELSE (Limb(r, Len(b) + 1) * W + Limb(r, Len(b))) \div b[Len(b)]

\* the quotient limbs found between two returns of the division
DivBlock == 8

\* Long division, one limb of a at a time from the top.  A state [q, r]
\* holds the quotient and the remainder of the limbs divided so far.
\* The state after the quotient limb d, for the remainder r with the next
\* limb brought down:
DivDigit(b, r, q, d) == [q |-> <<d>> \o q, r |-> BigSub(r, BigMulLimb(b, d))]

DivBring(b, r, q) == DivDigit(b, r, q, QDigit(r, b, QEstimate(r, b)))

\* the state after limb i of a
DivStep(a, b, i, st) == DivBring(b, BigNorm(<<a[i]>> \o st.r), st.q)

\* the state after limbs i down to lo of a
RECURSIVE DivRun(_, _, _, _, _)
DivRun(a, b, i, lo, st) ==
    IF i >= lo /\ Evaluated(st) THEN DivRun(a, b, i - 1, lo, DivStep(a, b, i, st))
    ELSE st

\* the state after limbs i down to 1 of a, DivBlock limbs at a time
RECURSIVE BigDivModAt(_, _, _, _)
BigDivModAt(a, b, i, st) ==
    IF i > 0 /\ Evaluated(st)
    THEN BigDivModAt(a, b, Max2(0, i - DivBlock),
                     DivRun(a, b, i, Max2(1, i - DivBlock + 1), st))
    ELSE st

\* res for a*2^sh and b*2^sh, as the result for a and b
Unshift(res, sh) == [q |-> BigNorm(res.q), r |-> BigShr(res.r, sh)]

\* an by bn, whose top limb is at least W/2; the limbs of an above the
\* first quotient limb k start the remainder
DivFrom(an, bn, k) ==
    BigDivModAt(an, bn, k, [q |-> << >>, r |-> SubSeq(an, k + 1, Len(an))])

DivNormalized(an, bn, sh) ==
    CASE Evaluated(<<an, bn>>) ->
        Unshift(DivFrom(an, bn, Len(an) - Len(bn) + 1), sh)

DivShift(a, b, sh) == DivNormalized(BigShl(a, sh), BigShl(b, sh), sh)

\* [q, r] with a = q*b + r and r < b, for b > 0.  Both are shifted left until
\* b's top limb is at least W/2, which leaves the quotient as it is.
BigDivMod(a, b) ==
    IF BigCmp(a, b) < 0 THEN [q |-> << >>, r |-> a]
    ELSE DivShift(a, b, LimbBits - IntBitLen(b[Len(b)]))

BigDiv(a, b) == BigDivMod(a, b).q

HalfSum(x, d) ==
    CASE Evaluated(d) ->
        BigShr(BigAdd(x, d), 1)

\* the step of Newton's iteration for the square root of a
SqrtStep(a, x) == HalfSum(x, BigDiv(a, x))

\* floor of the square root of a by Newton's iteration from above: x is
\* the iterate, y the next one
RECURSIVE BigSqrtIter(_, _, _)
BigSqrtIter(a, x, y) ==
    IF BigCmp(y, x) >= 0 THEN x ELSE BigSqrtIter(a, y, SqrtStep(a, y))

SqrtFrom(a, x) == BigSqrtIter(a, x, SqrtStep(a, x))

SqrtRem(a, q) ==
    CASE Evaluated(q) ->
        [q |-> q, r |-> BigSub(a, BigMul(q, q))]

\* [q, r] with a = q*q + r and q*q <= a < (q+1)*(q+1)
BigSqrt(a) ==
    IF Len(a) = 0 THEN [q |-> << >>, r |-> << >>]
    ELSE SqrtRem(a, SqrtFrom(a, BigPow2((BigBitLen(a) + 1) \div 2)))

BigSquare(a) ==
    CASE Evaluated(a) ->
        BigMul(a, a)

\* 10^k, by squaring
RECURSIVE BigPow10(_)
BigPow10(k) ==
    IF k <= 4 THEN <<10 ^ k>>
    ELSE IF k % 2 = 0 THEN BigSquare(BigPow10(k \div 2))
    ELSE BigMulLimb(BigPow10(k - 1), 10)

\* the natural written with the decimal digits ds, most significant
\* first, given the natural acc written with the digits before digit i
RECURSIVE BigOfDigitsFrom(_, _, _)
BigOfDigitsFrom(ds, i, acc) ==
    IF i <= Len(ds) /\ Evaluated(acc)
    THEN BigOfDigitsFrom(ds, i + 1, BigAdd(BigMulLimb(acc, 10), BigOfInt(ds[i])))
    ELSE acc

BigOfDigits(ds) == BigOfDigitsFrom(ds, 1, << >>)

----------------------------------------------------------------------------
(* Python float and JavaScript Number: IEEE-754 binary64.  A finite float  *)
(* is [s, m, e] for (-1)^s * m * 2^e, where m is empty (zero, e = 0) or    *)
(* has exactly Prec bits; a subnormal has zeros for its low bits and an e  *)
(* below MinExp.  FInf(s) are the infinities and FNaN is NaN.  +, -, *, /  *)
(* and sqrt round to nearest, ties to even, underflow gradually and        *)
(* overflow to an infinity.                                                *)

Prec == 53

\* 2^MinExp is the least float above zero
MinExp == -1074

\* 2^MaxExp is the least power of two above every finite float
MaxExp == 1024

Zero(s) == [s |-> s, m |-> << >>, e |-> 0]

FZero == Zero(0)

FInf(s) == [s |-> s, inf |-> TRUE]

FNaN == [nan |-> TRUE]

IsNaN(x) == "nan" \in DOMAIN x

IsInf(x) == "inf" \in DOMAIN x

IsFinite(x) == "m" \in DOMAIN x

IsZero(x) == IsFinite(x) /\ Len(x.m) = 0

\* (-1)^s * q * 2^e, a float's value or 2^MaxExp, for q of b > 0 bits
Normal(s, q, e, b) ==
    IF e + b > MaxExp THEN FInf(s)
    ELSE IF b > Prec
    THEN [s |-> s, m |-> BigShr(q, b - Prec), e |-> e + (b - Prec)]
    ELSE [s |-> s, m |-> BigShl(q, Prec - b), e |-> e - (Prec - b)]

\* (-1)^s * q * 2^e for q of at most Prec bits, or 2^Prec
Fit(s, q, e) ==
    CASE Evaluated(q) ->
        IF Len(q) = 0 THEN Zero(s) ELSE Normal(s, q, e, BigBitLen(q))

\* q rounded up when the bits cut off were more than half (c > 0), or half
\* (c = 0) with q odd
RoundUp(s, q, c, e) ==
    Fit(s, IF c > 0 \/ (c = 0 /\ BigIsOdd(q)) THEN BigAdd(q, <<1>>) ELSE q, e)

\* n with its low k bits cut off and rounded
RoundCut(s, n, e, k) ==
    RoundUp(s, BigShr(n, k), BigCmp(BigLowBits(n, k), BigPow2(k - 1)), e + k)

\* n of b bits, of which the low k are below what a float holds
RoundBits(s, n, e, b, k) ==
    IF k <= 0 THEN Normal(s, n, e, b) ELSE RoundCut(s, n, e, k)

\* the bits of n * 2^e, for n of b bits, below the last place of a float:
\* those beyond Prec, and those below 2^MinExp
CutBits(e, b) == Max2(b - Prec, MinExp - e)

\* (-1)^s * n * 2^e rounded to nearest, ties to even
Round(s, n, e) ==
    IF Len(n) = 0 THEN Zero(s)
    ELSE RoundBits(s, n, e, BigBitLen(n), CutBits(e, BigBitLen(n)))

Abs(n) == IF n < 0 THEN -n ELSE n

SignOf(n) == IF n < 0 THEN 1 ELSE 0

\* float(n) for an int n
FromInt(n) == Round(SignOf(n), BigOfInt(Abs(n)), 0)

\* 1 if n > 0, else 0: the bit that records an inexact quotient or root
Sticky(n) == IF Len(n) = 0 THEN << >> ELSE <<1>>

\* (-1)^s * 2^e times the quotient (or root) d.q, which has bits to spare
\* and the remainder d.r
RoundQuotient(s, d, e) ==
    CASE Evaluated(d) ->
        Round(s, BigAdd(BigMulLimb(d.q, 2), Sticky(d.r)), e - 1)

DecDiv(s, a, p10, shift) ==
    RoundQuotient(s, BigDivMod(BigShl(a, shift), p10), -shift)

DecShift(s, a, p10) ==
    CASE Evaluated(<<a, p10>>) ->
        DecDiv(s, a, p10, Max2(0, Prec + 3 + BigBitLen(p10) - BigBitLen(a)))

\* the float nearest to (-1)^s * a / 10^k
DecBig(s, a, k) == DecShift(s, a, BigPow10(k))

\* the float nearest to n / 10^k: what a decimal literal or a JSON number
\* with k decimals denotes
Dec(n, k) == DecBig(SignOf(n), BigOfInt(Abs(n)), k)

\* -x
FNeg(x) == IF IsNaN(x) THEN x ELSE [x EXCEPT !.s = 1 - x.s]

\* the magnitudes X and Y at one exponent e, subtracted; c is BigCmp(X, Y)
FSubMag(sx, X, sy, Y, e, c) ==
    IF c = 0 THEN FZero
    ELSE Round(IF c > 0 THEN sx ELSE sy,
               IF c > 0 THEN BigSub(X, Y) ELSE BigSub(Y, X), e)

\* the magnitudes X and Y at one exponent e, with signs sx and sy, added
FAddMag(sx, X, sy, Y, e) ==
    CASE Evaluated(<<X, Y>>) ->
        IF sx = sy THEN Round(sx, BigAdd(X, Y), e)
        ELSE FSubMag(sx, X, sy, Y, e, BigCmp(X, Y))

\* x + y for nonzero x, y with x.e >= y.e; a y too far below x to reach
\* the rounding bit counts as a sticky bit
FAddOrd(x, y) ==
    IF x.e - y.e > 60
    THEN FAddMag(x.s, BigShl(x.m, 3), y.s, <<1>>, x.e - 3)
    ELSE FAddMag(x.s, BigShl(x.m, x.e - y.e), y.s, y.m, y.e)

\* x + y for finite x, y: zeros of one sign add to the zero of that sign
FAddFinite(x, y) ==
    IF Len(x.m) = 0 /\ Len(y.m) = 0 THEN Zero(IF x.s = y.s THEN x.s ELSE 0)
    ELSE IF Len(x.m) = 0 THEN y
    ELSE IF Len(y.m) = 0 THEN x
    ELSE FAddOrd(IF x.e >= y.e THEN x ELSE y, IF x.e >= y.e THEN y ELSE x)

FAdd(x, y) ==
    CASE Evaluated(<<x, y>>) ->
        IF IsNaN(x) \/ IsNaN(y) THEN FNaN
        ELSE IF IsInf(x) THEN (IF IsInf(y) /\ y.s # x.s THEN FNaN ELSE x)
        ELSE IF IsInf(y) THEN y
        ELSE FAddFinite(x, y)

FSub(x, y) == FAdd(x, FNeg(y))

FMul(x, y) ==
    CASE Evaluated(<<x, y>>) ->
        IF IsNaN(x) \/ IsNaN(y) THEN FNaN
        ELSE IF IsInf(x) \/ IsInf(y)
        THEN (IF IsZero(x) \/ IsZero(y) THEN FNaN ELSE FInf((x.s + y.s) % 2))
        ELSE IF Len(x.m) = 0 \/ Len(y.m) = 0 THEN Zero((x.s + y.s) % 2)
        ELSE Round((x.s + y.s) % 2, BigMul(x.m, y.m), x.e + y.e)

\* x / y for finite x, y, neither zero
FDivFinite(x, y) ==
    RoundQuotient((x.s + y.s) % 2, BigDivMod(BigShl(x.m, 56), y.m),
                  x.e - y.e - 56)

\* x / y as IEEE 754 and JavaScript have it.  Python's / raises
\* ZeroDivisionError for y = 0 and is the same otherwise; app.py divides
\* by the literal 2.
FDiv(x, y) ==
    CASE Evaluated(<<x, y>>) ->
        IF IsNaN(x) \/ IsNaN(y) THEN FNaN
        ELSE IF IsInf(x) THEN (IF IsInf(y) THEN FNaN ELSE FInf((x.s + y.s) % 2))
        ELSE IF IsInf(y) THEN Zero((x.s + y.s) % 2)
        ELSE IF Len(y.m) = 0
        THEN (IF Len(x.m) = 0 THEN FNaN ELSE FInf((x.s + y.s) % 2))
        ELSE IF Len(x.m) = 0 THEN Zero((x.s + y.s) % 2)
        ELSE FDivFinite(x, y)

\* the square root of x > 0, whose exponent less 56 is odd or even
FSqrtOf(x, odd) ==
    RoundQuotient(0, BigSqrt(BigShl(x.m, IF odd THEN 57 ELSE 56)),
                  (IF odd THEN x.e - 57 ELSE x.e - 56) \div 2)

\* the square root of x: NaN below zero, and of a zero that zero
FSqrt(x) ==
    CASE Evaluated(x) ->
        IF IsNaN(x) \/ IsZero(x) THEN x
        ELSE IF x.s = 1 THEN FNaN
        ELSE IF IsInf(x) THEN x
        ELSE FSqrtOf(x, (x.e - 56) % 2 = 1)

\* -1, 0, 1 as |x| < |y|, |x| = |y|, |x| > |y|, for x, y not NaN
FCmpMag(x, y) ==
    IF IsInf(x) THEN (IF IsInf(y) THEN 0 ELSE 1)
    ELSE IF IsInf(y) THEN -1
    ELSE IF Len(x.m) = 0 THEN (IF Len(y.m) = 0 THEN 0 ELSE -1)
    ELSE IF Len(y.m) = 0 THEN 1
    ELSE IF x.e < y.e THEN -1
    ELSE IF x.e > y.e THEN 1
    ELSE BigCmp(x.m, y.m)

\* x > y: false when either is NaN; the two zeros are equal
FGreater(x, y) ==
    IF IsNaN(x) \/ IsNaN(y) THEN FALSE
    ELSE IF x.s = 0 /\ y.s = 0 THEN FCmpMag(x, y) > 0
    ELSE IF x.s = 1 /\ y.s = 1 THEN FCmpMag(x, y) < 0
    ELSE x.s = 0 /\ ~(IsZero(x) /\ IsZero(y))

----------------------------------------------------------------------------
(* math.sin, math.cos, math.atan2 and float ** 2 call the platform's libm  *)
(* (sin, cos, atan2, pow).  A build's libm is a function, so a call with   *)
(* the arguments of an earlier call returns what that call returned; its   *)
(* sin is odd and its cos and pow(., 2) even; and every result is within   *)
(* 1/2 + 1/2^LibmSlack of an ulp of the exact value, the nearest float     *)
(* among them, or, for sin and cos of a large argument, of the value at    *)
(* the place glibc's __branred takes the argument to be at.                *)
(* lib is what the build's libm has answered so far: a                     *)
(* function from calls to results.  A call the model makes returns a set:  *)
(* one [value, libm] or [exc, libm] for every outcome the build can give.  *)
(* The exact values come from fixed point with FxBits fraction bits.       *)

FxLimbs == 10

FxBits == FxLimbs * LimbBits

FxOne == BigPow2(FxBits)

\* the fraction limbs of HalfPi
PiLimbs == 80

\* floor(pi/2 * 2^(PiLimbs * LimbBits)): enough of pi/2 to tell, for
\* every finite float, where in its quarter turn it lies
HalfPi ==
    << 16650, 19800, 25367, 22881, 5237, 18679, 12974, 24451, 18846,
       9204, 12797, 9873, 14963, 1813, 9243, 6362, 32267, 1422, 26053,
       8199, 26552, 14614, 10486, 10342, 19602, 11391, 3042, 29249,
       13779, 26601, 11588, 27643, 23664, 24503, 8245, 19311, 32747,
       23234, 7158, 27046, 6277, 7121, 29686, 26149, 13998, 31009,
       24866, 27985, 27354, 16260, 8634, 9713, 19902, 2754, 3480,
       14915, 26522, 21606, 28540, 16461, 12742, 542, 10405, 6946,
       30247, 31384, 4189, 18240, 19705, 546, 295, 20777, 14393,
       11779, 13076, 19532, 6214, 2138, 27985, 18703, 1 >>

\* floor(pi/2 * 2^(n * LimbBits))
HalfPiTo(n) == BigShrLimbs(HalfPi, PiLimbs - n)

\* floor(pi/2 * 2^FxBits) and floor(pi * 2^FxBits)
FxHalfPi == HalfPiTo(FxLimbs)

FxPi == BigShrLimbs(BigMulLimb(HalfPi, 2), PiLimbs - FxLimbs)

\* floor(atan(i/8) * 2^FxBits) for i = 1..8
FxAtanTab ==
    << <<22986, 28536, 20753, 10191, 19404, 13000, 30428, 21893, 28326, 4074>>,
       <<10234, 31925, 26757, 31483, 18334, 10971, 7084, 19232, 15100, 8027>>,
       <<12423, 8399, 32546, 8924, 17986, 20010, 15395, 29295, 6465, 11756>>,
       <<17026, 16603, 7494, 27836, 18571, 5567, 21466, 12509, 26373, 15192>>,
       <<25241, 9160, 17463, 11467, 3448, 23268, 23033, 24318, 5975, 18304>>,
       <<31777, 20337, 32172, 21642, 8700, 8397, 28818, 9886, 8006, 21086>>,
       <<24251, 7838, 9284, 9249, 13973, 7769, 6631, 30790, 20362, 23554>>,
       <<16531, 26772, 23580, 5889, 6538, 9766, 3107, 17453, 30376, 25735>> >>

FxMul(a, b) ==
    CASE Evaluated(<<a, b>>) ->
        BigShrLimbs(BigMul(a, b), FxLimbs)

FxDiv(a, b) ==
    CASE Evaluated(<<a, b>>) ->
        BigDiv(BigShlLimbs(a, FxLimbs), b)

SinTerms == 19

AtanTerms == 26

\* 1 - sin(r)/r is the nested Taylor sum
\*   r2/(2*3) * (1 - r2/(4*5) * (1 - r2/(6*7) * ...)),  r2 = r*r.
\* Term j of it, given the sum acc of the terms within:
FxSinTerm(r2, j, acc) ==
    BigDivLimb(FxMul(r2, BigSub(FxOne, acc)), (2 * j) * (2 * j + 1))

\* terms j down to 1 around acc
RECURSIVE FxSinAcc(_, _, _)
FxSinAcc(r2, j, acc) ==
    IF j > 0 /\ Evaluated(acc) THEN FxSinAcc(r2, j - 1, FxSinTerm(r2, j, acc))
    ELSE acc

FxSinSum(r2) ==
    CASE Evaluated(r2) ->
        FxSinAcc(r2, SinTerms, << >>)

FxSinOf(r, acc) ==
    CASE Evaluated(acc) ->
        FxMul(r, BigSub(FxOne, acc))

FxSin(r) == FxSinOf(r, FxSinSum(FxMul(r, r)))

\* 1 - cos(r) is r2/(1*2) * (1 - r2/(3*4) * (1 - r2/(5*6) * ...))
FxCosTerm(r2, j, acc) ==
    BigDivLimb(FxMul(r2, BigSub(FxOne, acc)), (2 * j - 1) * (2 * j))

RECURSIVE FxCosAcc(_, _, _)
FxCosAcc(r2, j, acc) ==
    IF j > 0 /\ Evaluated(acc) THEN FxCosAcc(r2, j - 1, FxCosTerm(r2, j, acc))
    ELSE acc

FxCosSum(r2) ==
    CASE Evaluated(r2) ->
        FxCosAcc(r2, SinTerms, << >>)

FxCos(r) == BigSub(FxOne, FxCosSum(FxMul(r, r)))

\* atan(u)/u for 0 <= u < 1/8 is 1 - u2 * (1/3 - u2 * (1/5 - ...)),
\* u2 = u*u.  Term j, given the sum acc of the terms within:
FxAtanTerm(u2, j, acc) == BigSub(BigDivLimb(FxOne, 2 * j + 1), FxMul(u2, acc))

\* terms j down to 0 around acc
RECURSIVE FxAtanAcc(_, _, _)
FxAtanAcc(u2, j, acc) ==
    IF j >= 0 /\ Evaluated(acc) THEN FxAtanAcc(u2, j - 1, FxAtanTerm(u2, j, acc))
    ELSE acc

FxAtanSum(u2) ==
    CASE Evaluated(u2) ->
        FxAtanAcc(u2, AtanTerms, << >>)

FxAtanSeries(u) ==
    CASE Evaluated(u) ->
        FxMul(u, FxAtanSum(FxMul(u, u)))

\* atan(c) + atan((t - c)/(1 + t*c)) for c = i/8
FxAtanNear(t, i, c) ==
    BigAdd(FxAtanTab[i], FxAtanSeries(FxDiv(BigSub(t, c), BigAdd(FxOne, FxMul(t, c)))))

\* atan(t) for t in [i/8, (i + 1)/8)
FxAtanAt(t, i) ==
    IF i = 0 THEN FxAtanSeries(t)
    ELSE FxAtanNear(t, i, BigShr(BigShlLimbs(BigOfInt(i), FxLimbs), 3))

\* atan(t) for 0 <= t <= 1
FxAtan(t) ==
    CASE Evaluated(t) ->
        FxAtanAt(t, Limb(BigShr(t, FxBits - 3), 1))

\* x in fixed point with n fraction limbs, truncated, for finite x >= 0
ToFx(x, n) ==
    IF x.e + n * LimbBits >= 0 THEN BigShl(x.m, x.e + n * LimbBits)
    ELSE BigShr(x.m, -(x.e + n * LimbBits))

\* the fraction limbs that place x in its quarter turn to FxBits bits: one
\* more for every limb of x above the binary point
ReduceLimbs(x) == FxLimbs + Max2(0, (x.e + Prec + LimbBits - 1) \div LimbBits)

\* d is the quotient and remainder, at n fraction limbs, by pi/2
ReduceOf(d, n) ==
    CASE Evaluated(d) ->
        [k |-> Limb(d.q, 1) % 4, r |-> BigShrLimbs(d.r, n - FxLimbs)]

ReduceAt(x, n) == ReduceOf(BigDivMod(ToFx(x, n), HalfPiTo(n)), n)

\* x = k*(pi/2) + r with 0 <= r < pi/2, for finite x > 0:
\* [k |-> k mod 4, r |-> r]
Reduce(x) == ReduceAt(x, ReduceLimbs(x))

FxSinOrCos(r, sine) ==
    CASE Evaluated(r) ->
        IF sine THEN FxSin(r) ELSE FxCos(r)

\* sin(r) (wantSin) or cos(r) for 0 <= r < pi/2, by the series of the
\* smaller of r and pi/2 - r
FxSinCos(r, wantSin) ==
    IF BigCmp(BigMulLimb(r, 2), FxHalfPi) > 0
    THEN FxSinOrCos(BigSub(FxHalfPi, r), ~wantSin)
    ELSE FxSinOrCos(r, wantSin)

\* a libm result is within 1/2 + 1/2^LibmSlack of an ulp of the exact value
LibmSlack == 3

\* n without its low k bits: the float below (-1)^s * n * 2^e in magnitude
Below(s, n, e, k) == Fit(s, BigShr(n, k), e + k)

\* the float above it in magnitude
Above(s, n, e, k) == Fit(s, BigAdd(BigShr(n, k), <<1>>), e + k)

\* low is the k bits cut off, times 2^LibmSlack, and unit is 2^k: the
\* float below when low/2^k is at most 1/2 + 1/2^LibmSlack, the float
\* above when it is at least 1/2 - 1/2^LibmSlack
NearCut(s, n, e, k, low, unit) ==
    CASE Evaluated(<<low, unit>>) ->
        (IF BigCmp(low, BigMulLimb(unit, 2 ^ (LibmSlack - 1) + 1)) <= 0
         THEN {Below(s, n, e, k)} ELSE {})
        \cup
        (IF BigCmp(low, BigMulLimb(unit, 2 ^ (LibmSlack - 1) - 1)) >= 0
         THEN {Above(s, n, e, k)} ELSE {})

\* n of b bits, of which the low k are below what a float holds
NearBits(s, n, e, b, k) ==
    IF k <= 0 THEN {Normal(s, n, e, b)}
    ELSE NearCut(s, n, e, k, BigShl(BigLowBits(n, k), LibmSlack), BigPow2(k))

\* the floats a libm result may be when the exact value is (-1)^s * n * 2^e
Near(s, n, e) ==
    CASE Evaluated(n) ->
        IF Len(n) = 0 THEN {Zero(s)}
        ELSE NearBits(s, n, e, BigBitLen(n), CutBits(e, BigBitLen(n)))

\* glibc's sin and cos place an argument of 105414336 and above (0x419921FB
\* in its high word) in its quarter turn with __branred, which multiplies
\* by six 24-bit pieces of 2/pi at a time and so leaves the place off by
\* some 2^-91: next to a multiple of pi/2 the result is then many ulps from
\* the exact value.  BranredFrom and the constants below are those of
\* glibc's s_sin.c, branred.c and branred.h.
BranredFrom == Round(0, BigOfDigits(<<7, 0, 7, 4, 2, 3, 6, 3, 3, 8, 2, 7, 4, 3, 0, 4>>), -26)

\* 2/pi in pieces of 24 bits
toverp ==
    << 10680707, 7228996, 1387004, 2578385, 16069853, 12639074,
       9804092, 4427841, 16666979, 11263675, 12935607, 2387514,
       4345298, 14681673, 3074569, 13734428, 16653803, 1880361,
       10960616, 8533493, 3062596, 8710556, 7349940, 6258241,
       3772886, 3769171, 3798172, 8675211, 12450088, 3874808,
       9961438, 366607, 15675153, 9132554, 7151469, 3571407,
       2607881, 12013382, 4155038, 6285869, 7677882, 13102053,
       15825725, 473591, 9065106, 15363067, 6271263, 9264392,
       5636912, 4652155, 7056368, 13614112, 10155062, 1944035,
       9527646, 15080200, 6658437, 6231200, 6832269, 16767104,
       5075751, 3212806, 1398474, 7579849, 6349435, 12618859,
       4703257, 12806093, 14477321, 2786137, 12875403, 9837734,
       14528324, 13719321, 343717 >>

\* 2^27 + 1
split == FromInt(134217729)

\* 1.5 * 2^52 and 1.5 * 2^54: adding and subtracting them rounds to a
\* whole number and to a multiple of four
big == Round(0, <<3>>, 51)

big1 == Round(0, <<3>>, 53)

\* pi/2 in two floats, and its high part in two pieces
hp0 == Round(0, BigOfDigits(<<7, 0, 7, 4, 2, 3, 7, 7, 5, 2, 0, 2, 8, 4, 4, 0>>), -52)

hp1 == Round(0, BigOfDigits(<<4, 9, 6, 7, 7, 5, 7, 6, 0, 0, 0, 2, 1, 5, 1, 1>>), -106)

mp1 == Round(0, BigOfInt(421657432), -28)

mp2 == Round(1, BigOfInt(31320436), -51)

\* 2^k
TwoTo(k) == Round(0, <<1>>, k)

\* the exponent field of finite x
ExponentField(x) == IF Len(x.m) = 0 THEN 0 ELSE Max2(0, x.e + Prec - 1 + 1023)

\* where the pieces of 2/pi that matter to x start
BrIndex(x) == Max2(0, (ExponentField(x) - 450) \div 24)

\* r[i] = x * toverp[k + i] * gor, where the pieces that matter to x start
\* at k and gor is 2^(576 - 24 * (k + i))
BrTerm(x, k, i) ==
    FMul(FMul(x, FromInt(toverp[k + i + 1])), TwoTo(576 - 24 * (k + i)))

\* The statements of __branred, in order, as <<target, operator, operand,
\* operand>>.  Its work on one half x of the argument is written once and
\* run for both halves h, on variables of their own.
BrHalfCode(h) ==
    << <<"r0" \o h, "term", "x" \o h, 0>>, <<"r1" \o h, "term", "x" \o h, 1>>,
       <<"r2" \o h, "term", "x" \o h, 2>>, <<"r3" \o h, "term", "x" \o h, 3>>,
       <<"r4" \o h, "term", "x" \o h, 4>>, <<"r5" \o h, "term", "x" \o h, 5>>,
       \* for (i = 0; i < 3; i++) { s = (r[i] + big) - big; sum += s; r[i] -= s; }
       <<"sum" \o h, "+", "zero", "zero">>,
       <<"s", "+", "r0" \o h, "big">>, <<"s", "-", "s", "big">>,
       <<"sum" \o h, "+", "sum" \o h, "s">>, <<"r0" \o h, "-", "r0" \o h, "s">>,
       <<"s", "+", "r1" \o h, "big">>, <<"s", "-", "s", "big">>,
       <<"sum" \o h, "+", "sum" \o h, "s">>, <<"r1" \o h, "-", "r1" \o h, "s">>,
       <<"s", "+", "r2" \o h, "big">>, <<"s", "-", "s", "big">>,
       <<"sum" \o h, "+", "sum" \o h, "s">>, <<"r2" \o h, "-", "r2" \o h, "s">>,
       \* t = 0; for (i = 0; i < 6; i++) t += r[5 - i];
       <<"t", "+", "zero", "r5" \o h>>, <<"t", "+", "t", "r4" \o h>>,
       <<"t", "+", "t", "r3" \o h>>, <<"t", "+", "t", "r2" \o h>>,
       <<"t", "+", "t", "r1" \o h>>, <<"t", "+", "t", "r0" \o h>>,
       \* bb = (((((r[0] - t) + r[1]) + r[2]) + r[3]) + r[4]) + r[5];
       <<"bb" \o h, "-", "r0" \o h, "t">>, <<"bb" \o h, "+", "bb" \o h, "r1" \o h>>,
       <<"bb" \o h, "+", "bb" \o h, "r2" \o h>>, <<"bb" \o h, "+", "bb" \o h, "r3" \o h>>,
       <<"bb" \o h, "+", "bb" \o h, "r4" \o h>>, <<"bb" \o h, "+", "bb" \o h, "r5" \o h>>,
       \* s = (t + big) - big; sum += s; t -= s;
       <<"s", "+", "t", "big">>, <<"s", "-", "s", "big">>,
       <<"sum" \o h, "+", "sum" \o h, "s">>, <<"t", "-", "t", "s">>,
       \* b = t + bb; bb = (t - b) + bb;
       <<"b" \o h, "+", "t", "bb" \o h>>, <<"u", "-", "t", "b" \o h>>,
       <<"bb" \o h, "+", "u", "bb" \o h>>,
       \* s = (sum + big1) - big1; sum -= s;
       <<"s", "+", "sum" \o h, "big1">>, <<"s", "-", "s", "big1">>,
       <<"sum" \o h, "-", "sum" \o h, "s">> >>

BrCode ==
    << \* x *= tm600; t = x * split; x1 = t - (t - x); x2 = x - x1;
       <<"x", "*", "x", "tm600">>, <<"t", "*", "x", "split">>,
       <<"u", "-", "t", "x">>, <<"x1", "-", "t", "u">>, <<"x2", "-", "x", "x1">> >>
    \o BrHalfCode("1") \o BrHalfCode("2") \o
    << \* sum = sum1 + sum2; b = b1 + b2;
       <<"sum", "+", "sum1", "sum2">>, <<"b", "+", "b1", "b2">>,
       \* bb = (fabs (b1) > fabs (b2)) ? (b1 - b) + b2 : (b2 - b) + b1;
       <<"hi", "larger", "b1", "b2">>, <<"lo", "smaller", "b1", "b2">>,
       <<"u", "-", "hi", "b">>, <<"bb", "+", "u", "lo">>,
       \* if (b > 0.5) { b -= 1.0; sum += 1.0; }
       \* else if (b < -0.5) { b += 1.0; sum -= 1.0; }
       <<"one", "beyond half", "b", "b">>,
       <<"b", "-", "b", "one">>, <<"sum", "+", "sum", "one">>,
       \* s = b + (bb + bb1 + bb2); t = ((b - s) + bb) + (bb1 + bb2);
       <<"u", "+", "bb", "bb1">>, <<"u", "+", "u", "bb2">>, <<"s", "+", "b", "u">>,
       <<"v", "+", "bb1", "bb2">>, <<"t", "-", "b", "s">>, <<"t", "+", "t", "bb">>,
       <<"t", "+", "t", "v">>,
       \* b = s * split; t1 = b - (b - s); t2 = s - t1;
       <<"b", "*", "s", "split">>, <<"u", "-", "b", "s">>, <<"t1", "-", "b", "u">>,
       <<"t2", "-", "s", "t1">>,
       \* b = s * hp0;
       \* bb = (((t1 * mp1 - b) + t1 * mp2) + t2 * mp1)
       \*      + (t2 * mp2 + s * hp1 + t * hp0);
       <<"b", "*", "s", "hp0">>,
       <<"p", "*", "t1", "mp1">>, <<"p", "-", "p", "b">>, <<"q", "*", "t1", "mp2">>,
       <<"p", "+", "p", "q">>, <<"q", "*", "t2", "mp1">>, <<"p", "+", "p", "q">>,
       <<"q", "*", "t2", "mp2">>, <<"w", "*", "s", "hp1">>, <<"q", "+", "q", "w">>,
       <<"w", "*", "t", "hp0">>, <<"q", "+", "q", "w">>, <<"bb", "+", "p", "q">>,
       \* s = b + bb; t = (b - s) + bb; *a = s; *aa = t;
       <<"s", "+", "b", "bb">>, <<"t", "-", "b", "s">>, <<"t", "+", "t", "bb">> >>

\* the constants of __branred, and zero for every variable it assigns
BrVariables(x) ==
    [x |-> x, tm600 |-> TwoTo(-600), split |-> split, big |-> big,
     big1 |-> big1, hp0 |-> hp0, hp1 |-> hp1, mp1 |-> mp1, mp2 |-> mp2,
     zero |-> FZero]
    @@ [name \in {ins[1] : ins \in {BrCode[i] : i \in 1..Len(BrCode)}} |-> FZero]

\* 1.0 for a beyond a half, -1.0 for a beyond minus a half, else 0.0
BeyondHalf(a) ==
    IF FGreater(a, Dec(5, 1)) THEN FromInt(1)
    ELSE IF FGreater(Dec(-5, 1), a) THEN FromInt(-1)
    ELSE FZero

\* what the statement ins assigns when the variables are vs
BrValue(ins, vs) ==
    CASE ins[2] = "+" -> FAdd(vs[ins[3]], vs[ins[4]])
      [] ins[2] = "-" -> FSub(vs[ins[3]], vs[ins[4]])
      [] ins[2] = "*" -> FMul(vs[ins[3]], vs[ins[4]])
      [] ins[2] = "term" -> BrTerm(vs[ins[3]], BrIndex(vs[ins[3]]), ins[4])
      [] ins[2] = "larger" ->
            IF FCmpMag(vs[ins[3]], vs[ins[4]]) > 0 THEN vs[ins[3]] ELSE vs[ins[4]]
      [] ins[2] = "smaller" ->
            IF FCmpMag(vs[ins[3]], vs[ins[4]]) > 0 THEN vs[ins[4]] ELSE vs[ins[3]]
      [] ins[2] = "beyond half" -> BeyondHalf(vs[ins[3]])

\* the variables after the statements from the i-th to the j-th, i <= j,
\* run in order: the first half of them, then the rest
RECURSIVE BrRun(_, _, _, _)
BrRun(code, i, j, vs) ==
    CASE Evaluated(vs) ->
        IF i = j THEN [vs EXCEPT ![code[i][1]] = BrValue(code[i], vs)]
        ELSE BrRun(code, (i + j) \div 2 + 1, j, BrRun(code, i, (i + j) \div 2, vs))

\* a float n that is a whole number of small size, modulo four
FloatMod4(n) ==
    IF Len(n.m) = 0 THEN 0
    ELSE IF n.s = 1 THEN (4 - (Limb(BigShr(n.m, -n.e), 1) % 4)) % 4
    ELSE Limb(BigShr(n.m, -n.e), 1) % 4

\* return ((int) sum) & 3
BrReturn(vs) ==
    CASE Evaluated(vs) -> [a |-> vs.s, da |-> vs.t, n |-> FloatMod4(vs.sum)]

\* __branred(x, &a, &aa) for finite x >= BranredFrom: x = n*(pi/2) + a + da
\* as glibc has it, [a, da, n] with n modulo four
branred(x) == BrReturn(BrRun(BrCode, 1, Len(BrCode), BrVariables(x)))

\* v in fixed point with its sign, for finite v
SignedFx(v) == [s |-> v.s, m |-> ToFx(v, FxLimbs)]

\* u + v
SignedSum(u, v) ==
    CASE Evaluated(<<u, v>>) ->
        IF u.s = v.s THEN [s |-> u.s, m |-> BigAdd(u.m, v.m)]
        ELSE IF BigCmp(u.m, v.m) >= 0 THEN [s |-> u.s, m |-> BigSub(u.m, v.m)]
        ELSE [s |-> v.s, m |-> BigSub(v.m, u.m)]

\* n quarter turns and v, as k quarter turns and 0 <= r < pi/2
PlaceOf(n, v) ==
    CASE Evaluated(v) ->
        IF v.s = 1 /\ Len(v.m) > 0
        THEN [k |-> (n + 3) % 4, r |-> BigSub(FxHalfPi, v.m)]
        ELSE [k |-> n, r |-> v.m]

\* the place of x that do_sincos is given
BranredPlace(b) ==
    CASE Evaluated(b) -> PlaceOf(b.n, SignedSum(SignedFx(b.a), SignedFx(b.da)))

\* the places sin and cos may take x >= 0 to be at: the exact one, and
\* glibc's
Places(x) ==
    IF FCmpMag(x, BranredFrom) >= 0 THEN {Reduce(x), BranredPlace(branred(x))}
    ELSE {Reduce(x)}

\* the floats libm may return for sin at the place red
SinReduced(red) ==
    CASE Evaluated(red) ->
        Near(IF red.k >= 2 THEN 1 ELSE 0, FxSinCos(red.r, red.k % 2 = 0), -FxBits)

\* what sin(x) may be for finite x >= 0: x itself when x^3/6 is far below
\* the last place of x
sin_values(x) ==
    IF Len(x.m) = 0 \/ x.e + Prec <= -26 THEN {x}
    ELSE UNION {SinReduced(red) : red \in Places(x)}

CosReduced(red) ==
    CASE Evaluated(red) ->
        Near(IF red.k \in {1, 2} THEN 1 ELSE 0, FxSinCos(red.r, red.k % 2 = 1), -FxBits)

\* what cos(x) may be for finite x >= 0
cos_values(x) ==
    IF Len(x.m) = 0 \/ x.e + Prec <= -27 THEN {FromInt(1)}
    ELSE UNION {CosReduced(red) : red \in Places(x)}

\* what pow(x, 2.0) may be for finite x > 0: x*x is known exactly
pow2_values(x) == Near(0, BigMul(x.m, x.m), 2 * x.e)

\* num/den in fixed point, truncated, for |num| <= |den|
FxRatio(num, den) ==
    IF num.e - den.e + FxBits >= 0
    THEN BigDiv(BigShl(num.m, num.e - den.e + FxBits), den.m)
    ELSE << >>

\* the angle v of the smaller over the larger of |y|, |x|, moved to the
\* octant (flip: |y| > |x|) and the half plane (sx = 1: x < 0)
Atan2Place(flip, sx, v) ==
    CASE Evaluated(v) ->
        IF sx = 1
        THEN BigSub(FxPi, IF flip THEN BigSub(FxHalfPi, v) ELSE v)
        ELSE IF flip THEN BigSub(FxHalfPi, v) ELSE v

\* num/den to FxBits bits: a quotient below 2^-30 is its own arctangent to
\* more bits than a float holds
SmallQuotient(s, num, den) ==
    Near(s, BigDiv(BigShl(num.m, FxBits), den.m), num.e - den.e - FxBits)

\* q is |num/den| as a float
Atan2Of(y, x, flip, num, den, q) ==
    IF ~flip /\ x.s = 0 /\ (Len(q.m) = 0 \/ q.e + Prec <= -30)
    THEN SmallQuotient(y.s, num, den)
    ELSE Near(y.s, Atan2Place(flip, x.s, FxAtan(FxRatio(num, den))), -FxBits)

Atan2Ordered(y, x, flip, num, den) ==
    Atan2Of(y, x, flip, num, den,
            FDiv([num EXCEPT !.s = 0], [den EXCEPT !.s = 0]))

Atan2Flip(y, x, flip) ==
    Atan2Ordered(y, x, flip, IF flip THEN x ELSE y, IF flip THEN y ELSE x)

\* what libm's atan2(y, x) may be for finite y # 0 and finite x
atan2_values(y, x) ==
    CASE Evaluated(<<y, x>>) ->
        IF Len(x.m) = 0 THEN {Round(y.s, FxHalfPi, -FxBits)}
        ELSE Atan2Flip(y, x, FCmpMag(y, x) > 0)

\* no call answered yet
NoCalls == [key \in {} |-> FZero]

\* The call key in a build that has answered lib: what it answered before,
\* else any of vals, which it answers from then on.
Call(lib, key, vals) ==
    IF key \in DOMAIN lib THEN {[value |-> lib[key], libm |-> lib]}
    ELSE {[value |-> v, libm |-> (key :> v) @@ lib] : v \in vals}

\* a function that returns v without a call of libm
NoCall(lib, v) == {[value |-> v, libm |-> lib]}

\* a function that raises e without a call of libm
RaiseIn(lib, e) == {[exc |-> e, libm |-> lib]}

Raised(r) == "exc" \in DOMAIN r

\* |x|
Mag(x) == [x EXCEPT !.s = 0]

\* x with its sign changed when s = 1
Signed(x, s) == IF s = 1 THEN [x EXCEPT !.s = 1 - x.s] ELSE x

SignedCalls(calls, s) ==
    {[value |-> Signed(c.value, s), libm |-> c.libm] : c \in calls}

\* math.sin(x): NaN for NaN, ValueError ("math domain error") for an
\* infinity
math_sin(lib, x) ==
    IF IsNaN(x) THEN NoCall(lib, x)
    ELSE IF IsInf(x) THEN RaiseIn(lib, "ValueError")
    ELSE SignedCalls(Call(lib, <<"sin", Mag(x)>>, sin_values(Mag(x))), x.s)

\* math.cos(x)
math_cos(lib, x) ==
    IF IsNaN(x) THEN NoCall(lib, x)
    ELSE IF IsInf(x) THEN RaiseIn(lib, "ValueError")
    ELSE Call(lib, <<"cos", Mag(x)>>, cos_values(Mag(x)))

\* a result of pow that is an infinity is float.__pow__'s OverflowError
PowCalls(calls) ==
    {IF IsInf(c.value) THEN [exc |-> "OverflowError", libm |-> c.libm] ELSE c :
        c \in calls}

\* x ** 2: float.__pow__ answers NaN, the infinities and the zeros itself
\* and calls pow(|x|, 2.0) for the rest
float_pow2(lib, x) ==
    IF IsNaN(x) THEN NoCall(lib, x)
    ELSE IF IsInf(x) THEN NoCall(lib, FInf(0))
    ELSE IF Len(x.m) = 0 THEN NoCall(lib, FZero)
    ELSE PowCalls(Call(lib, <<"pow", Mag(x)>>, pow2_values(Mag(x))))

\* math.pi
math_pi == Round(0, FxPi, -FxBits)

\* math.atan2(y, x) where y or x is an infinity, or y is a zero: the sign
\* of y on a quarter, a half or three quarters of pi, on pi or on zero
atan2_special(y, x) ==
    IF IsInf(y)
    THEN (IF IsInf(x)
          THEN FMul(IF x.s = 0 THEN Dec(25, 2) ELSE Dec(75, 2), math_pi)
          ELSE FMul(Dec(5, 1), math_pi))
    ELSE IF x.s = 0 THEN FZero ELSE math_pi

\* math.atan2(y, x): libm's atan2 for finite y # 0 and finite x
math_atan2(lib, y, x) ==
    IF IsNaN(y) \/ IsNaN(x) THEN NoCall(lib, FNaN)
    ELSE IF IsInf(y) \/ IsInf(x) \/ IsZero(y)
    THEN NoCall(lib, [atan2_special(y, x) EXCEPT !.s = y.s])
    ELSE Call(lib, <<"atan2", <<y, x>>>>, atan2_values(y, x))

\* math.radians: x * (pi / 180)
degToRad == FDiv(math_pi, FromInt(180))

math_radians(x) == FMul(x, degToRad)

----------------------------------------------------------------------------
(* A call either returns a value or raises an exception.                   *)

Return(v) == [value |-> v]

Raise(e) == [exc |-> e]

\* math.sqrt raises ValueError ("math domain error") below zero, which
\* -0.0 is not; the square root itself is correctly rounded
math_sqrt(x) ==
    IF ~IsNaN(x) /\ ~IsZero(x) /\ x.s = 1 THEN Raise("ValueError")
    ELSE Return(FSqrt(x))

\* Earth radius in meters
R == 6371000

\* A run of a line of haversine so far: the values of the calls made, in
\* order, and what libm has answered; or the exception that ended it.
Start(lib) == {[vals |-> << >>, libm |-> lib]}

Push(t, calls) ==
    {IF Raised(c) THEN c ELSE [vals |-> Append(t.vals, c.value), libm |-> c.libm] :
        c \in calls}

\* each run carried on by math.sin(x), by math.cos(x), and by the square
\* of its value i
then_sin(T, x) ==
    UNION {IF Raised(t) THEN {t} ELSE Push(t, math_sin(t.libm, x)) : t \in T}

then_cos(T, x) ==
    UNION {IF Raised(t) THEN {t} ELSE Push(t, math_cos(t.libm, x)) : t \in T}

then_pow2(T, i) ==
    UNION {IF Raised(t) THEN {t} ELSE Push(t, float_pow2(t.libm, t.vals[i])) :
              t \in T}

\* sinphi2 + cos1*cos2*sinlam2
hav_sum(sinphi2, cos1, cos2, sinlam2) ==
    FAdd(sinphi2, FMul(FMul(cos1, cos2), sinlam2))

\* the runs' values are sin(dphi/2), its square, cos(phi1), cos(phi2),
\* sin(dlambda/2), its square
hav_sums(T) ==
    {IF Raised(t) THEN t
     ELSE [value |-> hav_sum(t.vals[2], t.vals[3], t.vals[4], t.vals[6]),
           libm  |-> t.libm] : t \in T}

\* app.py line 17 with phi1 where phi2 belongs in the cosine product
hav_a_cos_phi1(lib, phi1, phi2, dphi, dlambda) ==
    hav_sums(
        then_pow2(
            then_sin(
                then_cos(
                    then_cos(
                        then_pow2(then_sin(Start(lib), FDiv(dphi, FromInt(2))), 1),
                        phi1),
                    phi1),
                FDiv(dlambda, FromInt(2))),
            5))

\* app.py line 17, in Python's order of evaluation:
\* a = sin(dphi/2)**2 + cos(phi1)*cos(phi2)*sin(dlambda/2)**2
hav_a(lib, phi1, phi2, dphi, dlambda) ==
    hav_sums(
        then_pow2(
            then_sin(
                then_cos(
                    then_cos(
                        then_pow2(then_sin(Start(lib), FDiv(dphi, FromInt(2))), 1),
                        phi1),
                    phi2),
                FDiv(dlambda, FromInt(2))),
            5))

\* app.py line 18, given sqrt(a) and sqrt(1 - a): 2 * R * atan2(..), or the
\* exception of the square root that raised
hav_angle(lib, sqrta, sqrt1a) ==
    CASE Evaluated(<<sqrta, sqrt1a>>) ->
        IF Raised(sqrta) THEN RaiseIn(lib, sqrta.exc)
        ELSE IF Raised(sqrt1a) THEN RaiseIn(lib, sqrt1a.exc)
        ELSE {[value |-> FMul(FromInt(2 * R), c.value), libm |-> c.libm] :
                 c \in math_atan2(lib, sqrta.value, sqrt1a.value)}

\* app.py line 18, for every run of line 17
hav_distance(A) ==
    UNION {IF Raised(a) THEN {a}
           ELSE hav_angle(a.libm, math_sqrt(a.value),
                          math_sqrt(FSub(FromInt(1), a.value))) : a \in A}

\* app.py, haversine: for every result of the libm calls, the distance in
\* meters, or the exception raised: the ValueError of math.sin for an
\* infinity, or of math.sqrt when rounding has left a outside [0, 1]; with
\* what libm has then answered
haversine(lib, lat1, lon1, lat2, lon2) ==
    hav_distance(hav_a(lib, math_radians(lat1), math_radians(lat2),
                       math_radians(FSub(lat2, lat1)), math_radians(FSub(lon2, lon1))))

\* a result of haversine without the libm it left
Outcome(d) == IF Raised(d) THEN Raise(d.exc) ELSE Return(d.value)

----------------------------------------------------------------------------
(* Python values, as request.json yields them from the JSON of a request.  *)
(* A str is the sequence of its code points, an int a sign and a natural   *)
(* of any size.  The keys of a dict are written as TLA+ strings.           *)

None == [type |-> "NoneType"]

PyFloat(x) == [type |-> "float", value |-> x]

\* the int (-1)^s * m, for a natural m in limbs
PyLong(s, m) == [type |-> "int", value |-> [s |-> s, m |-> m]]

PyInt(n) == PyLong(SignOf(n), BigOfInt(Abs(n)))

PyBool(b) == [type |-> "bool", value |-> b]

PyStr(cs) == [type |-> "str", value |-> cs]

\* a list, whatever is in it
PyList == [type |-> "list"]

\* a dict d, a function from its keys
PyDict(d) == [type |-> "dict", value |-> d]

\* data.get(key): None when the key is absent.  Of the values JSON
\* yields only a dict has a get; the others raise AttributeError.
dict_get(data, key) ==
    IF data.type # "dict" THEN Raise("AttributeError")
    ELSE Return(IF key \in DOMAIN data.value THEN data.value[key] ELSE None)

\* float(n) for an int n of any size: the nearest float, ties to even, and
\* OverflowError ("int too large to convert to float") when that is 2^1024
\* or more
float_of_int(n) ==
    IF IsInf(Round(n.s, n.m, 0)) THEN Raise("OverflowError")
    ELSE Return(Round(n.s, n.m, 0))

\* The characters of Python 3.11 (Unicode 14.0) above ASCII that are
\* spaces: NEL, NBSP, the Ogham space, U+2000 to U+200A, the line and
\* paragraph separators, U+202F, U+205F and the ideographic space.
UnicodeSpaces ==
    {133, 160, 5760} \cup (8192..8202) \cup {8232, 8233, 8239, 8287, 12288}

\* The zeros of its decimal digits above ASCII; the digits one to nine of
\* each follow its zero.
DecimalZeros ==
    {1632, 1776, 1984, 2406, 2534, 2662, 2790, 2918,
     3046, 3174, 3302, 3430, 3558, 3664, 3792, 3872,
     4160, 4240, 6112, 6160, 6470, 6608, 6784, 6800,
     6992, 7088, 7232, 7248, 42528, 43216, 43264, 43472,
     43504, 43600, 44016, 65296, 66720, 68912, 69734, 69872,
     69942, 70096, 70384, 70736, 70864, 71248, 71360, 71472,
     71904, 72016, 72784, 73040, 73120, 92768, 92864, 93008,
     120782, 120792, 120802, 120812, 120822, 123200, 123632, 125264,
     130032}

\* the value of the decimal digit c, or -1
to_decimal(c) ==
    IF \E z \in DecimalZeros : c - z \in 0..9
    THEN c - (CHOOSE z \in DecimalZeros : c - z \in 0..9)
    ELSE -1

\* float(str) first writes the str in ASCII: a character below 127 stays,
\* a space above becomes " " (32), a decimal digit its ASCII digit, and any
\* other "?" (63), where the code also ends the string; no number has
\* a "?" in it
to_ascii(c) ==
    IF c < 127 THEN c
    ELSE IF c \in UnicodeSpaces THEN 32
    ELSE IF to_decimal(c) >= 0 THEN 48 + to_decimal(c)
    ELSE 63

TransformDecimalAndSpaceToASCII(cs) == [i \in 1..Len(cs) |-> to_ascii(cs[i])]

\* "0" to "9"
Digits == 48..57

DigitValue == [c \in Digits |-> c - 48]

\* the blanks float() strips from the ends of the ASCII text: tab, LF, VT,
\* FF, CR and space
Whitespace == {9, 10, 11, 12, 13, 32}

\* a capital letter in lower case
to_lower(ch) == IF ch \in 65..90 THEN ch + 32 ELSE ch

Least(S) == CHOOSE i \in S : \A j \in S : i <= j

Greatest(S) == CHOOSE i \in S : \A j \in S : i >= j

NotBlank(cs) == {i \in 1..Len(cs) : cs[i] \notin Whitespace}

\* cs without the blanks at its ends
strip(cs) ==
    IF NotBlank(cs) = {} THEN << >>
    ELSE SubSeq(cs, Least(NotBlank(cs)), Greatest(NotBlank(cs)))

IsDigitAt(cs, i) == i \in 1..Len(cs) /\ cs[i] \in Digits

\* every underscore (95) stands between two digits
UnderscoresGrouped(cs) ==
    \A i \in 1..Len(cs) : cs[i] = 95 => IsDigitAt(cs, i - 1) /\ IsDigitAt(cs, i + 1)

NotUnderscore(ch) == ch # 95

\* "." is 46
NotPoint(ch) == ch # 46

\* "+" is 43 and "-" 45
HasSign(cs) == Len(cs) > 0 /\ cs[1] \in {43, 45}

Unsigned(cs) == IF HasSign(cs) THEN Tail(cs) ELSE cs

SignBit(cs) == IF HasSign(cs) /\ cs[1] = 45 THEN 1 ELSE 0

AllDigits(cs) == \A i \in 1..Len(cs) : cs[i] \in Digits

\* strtod's limits (Python/dtoa.c): a mantissa of more digits than
\* MAX_DIGITS is not a number, and an exponent of more than nine digits is
\* read as MAX_ABS_EXP
MAX_DIGITS == 1000000000

MAX_ABS_EXP == 1100000000

\* the float of decimals this far from 1 is an infinity or a zero
DecHigh == 310

DecLow == -325

\* the number the digits cs[i..] continue from acc
RECURSIVE ExpValue(_, _, _)
ExpValue(cs, i, acc) ==
    IF i > Len(cs) THEN acc
    ELSE ExpValue(cs, i + 1, acc * 10 + DigitValue[cs[i]])

\* the digits ds from the first that is not "0"
Significant(ds) ==
    IF \A i \in 1..Len(ds) : ds[i] = 48 THEN << >>
    ELSE SubSeq(ds, Least({i \in 1..Len(ds) : ds[i] # 48}), Len(ds))

\* the exponent of the digits ds: zeros in front are skipped, and nine
\* digits at most are read for what they say
AbsExp(ds) ==
    IF Len(Significant(ds)) > 9 THEN MAX_ABS_EXP
    ELSE IF ExpValue(Significant(ds), 1, 0) > MAX_ABS_EXP THEN MAX_ABS_EXP
    ELSE ExpValue(Significant(ds), 1, 0)

\* the exponent written cs: a sign and digits
SignedExp(cs) ==
    IF SignBit(cs) = 1 THEN -AbsExp(Unsigned(cs)) ELSE AbsExp(Unsigned(cs))

\* the places of the exponent letter, "e" (101) or "E" (69), in cs
ExpMarks(cs) == {i \in 1..Len(cs) : cs[i] \in {101, 69}}

\* cs up to its exponent letter, and after it
MantissaOf(cs) ==
    IF ExpMarks(cs) = {} THEN cs ELSE SubSeq(cs, 1, Least(ExpMarks(cs)) - 1)

ExponentOf(cs) == SubSeq(cs, Least(ExpMarks(cs)) + 1, Len(cs))

\* digits with at most one point among them, and at least one digit
IsMantissa(cs) ==
    /\ \A i \in 1..Len(cs) : cs[i] \in Digits \cup {46}
    /\ Cardinality({i \in 1..Len(cs) : cs[i] = 46}) <= 1
    /\ \E i \in 1..Len(cs) : cs[i] \in Digits

\* a sign or none, and at least one digit
IsExponent(cs) == Len(Unsigned(cs)) > 0 /\ AllDigits(Unsigned(cs))

\* the decimals after the point of a mantissa
Decimals(cs) ==
    IF \A i \in 1..Len(cs) : cs[i] # 46 THEN 0
    ELSE Len(cs) - Least({i \in 1..Len(cs) : cs[i] = 46})

DigitValues(ds) == [i \in 1..Len(ds) |-> DigitValue[ds[i]]]

\* the float nearest to (-1)^s * ds * 10^p, for digits ds that do not
\* start with 0
DecFloat(s, ds, p) ==
    IF Len(ds) = 0 THEN Zero(s)
    ELSE IF Len(ds) + p > DecHigh THEN FInf(s)
    ELSE IF Len(ds) + p < DecLow THEN Zero(s)
    ELSE IF p >= 0
    THEN Round(s, BigMul(BigOfDigits(DigitValues(ds)), BigPow10(p)), 0)
    ELSE DecBig(s, BigOfDigits(DigitValues(ds)), -p)

\* the digits ds, which do not start with "0", up to the last that is not
\* "0"
Trimmed(ds) ==
    IF Len(ds) = 0 THEN ds
    ELSE SubSeq(ds, 1, Greatest({i \in 1..Len(ds) : ds[i] # 48}))

\* the float of the significant digits ds with their last at 10^p: the
\* zeros at their end are counted into the exponent
DecDigits(s, ds, p) ==
    DecFloat(s, Trimmed(ds), p + (Len(ds) - Len(Trimmed(ds))))

\* the float written with the mantissa mant and the exponent ex
DecimalOf(s, mant, ex) ==
    DecDigits(s, Significant(SelectSeq(mant, NotPoint)), ex - Decimals(mant))

\* the number written cs, which has no sign: a mantissa, and after an e an
\* exponent.  The exponent counts from the point, whatever the number of
\* decimals.
parse_decimal(s, cs) ==
    IF ~IsMantissa(MantissaOf(cs)) THEN Raise("ValueError")
    ELSE IF \/ Len(Significant(SelectSeq(MantissaOf(cs), NotPoint))) > MAX_DIGITS
            \/ Decimals(MantissaOf(cs)) > MAX_DIGITS
    THEN Raise("ValueError")
    ELSE IF ExpMarks(cs) = {} THEN Return(DecimalOf(s, cs, 0))
    ELSE IF ~IsExponent(ExponentOf(cs)) THEN Raise("ValueError")
    ELSE Return(DecimalOf(s, MantissaOf(cs), SignedExp(ExponentOf(cs))))

Word(cs) == [i \in 1..Len(cs) |-> to_lower(cs[i])]

\* the number written cs: a sign or none, then "inf", "infinity" or "nan"
\* in either case, or a decimal number
parse_float(cs) ==
    IF Word(Unsigned(cs)) \in {<<105, 110, 102>>,
                               <<105, 110, 102, 105, 110, 105, 116, 121>>}
    THEN Return(FInf(SignBit(cs)))
    ELSE IF Word(Unsigned(cs)) = <<110, 97, 110>> THEN Return(FNaN)
    ELSE parse_decimal(SignBit(cs), Unsigned(cs))

\* the ASCII text cs, stripped: underscores between digits are dropped and
\* what is left must be a number from end to end, or it is a ValueError.
\* A number too large is an infinity, one too small a zero.
float_of_ascii(cs) ==
    IF ~UnderscoresGrouped(cs) THEN Raise("ValueError")
    ELSE parse_float(SelectSeq(cs, NotUnderscore))

\* float(str): the str is written in ASCII and the blanks at its ends are
\* stripped
float_of_str(cs) == float_of_ascii(strip(TransformDecimalAndSpaceToASCII(cs)))

\* float(v): numbers convert, True and False are 1.0 and 0.0, a str is
\* parsed, None (and every other type) is a TypeError
float(v) ==
    IF v.type = "float" THEN Return(v.value)
    ELSE IF v.type = "int" THEN float_of_int(v.value)
    ELSE IF v.type = "bool" THEN Return(FromInt(IF v.value THEN 1 ELSE 0))
    ELSE IF v.type = "str" THEN float_of_str(v.value)
    ELSE Raise("TypeError")

----------------------------------------------------------------------------
(* The endpoint /check_access.  A request runs check_access in a frame of  *)
(* its own; the frame's pc is the next part of the function to run.  The   *)
(* module globals are read where the code reads them.  Flask answers an    *)
(* exception no handler catches with 500 Internal Server Error.  The       *)
(* message texts are kept without the sign that leads them.                *)
(*                                                                         *)
(* Nothing is served before app.py is imported, and line 4 decides the     *)
(* import: Flask(__app__) looks __app__ up in the module's globals, which  *)
(* do not bind it, and then in the interpreter's builtins.  In a plain     *)
(* interpreter they do not bind it either: the import raises NameError,    *)
(* lines 7-9 never run, no route is registered and no request is ever      *)
(* answered.  Only where the builtins bind __app__ to a str does the       *)
(* import run to its end, and only then is there a server to send          *)
(* requests to; everything below about requests and the page is about      *)
(* such an interpreter.                                                    *)

\* app.py lines 7-9
InitialGlobals ==
    [OFFICE_LAT |-> Dec(17437391, 6),
     OFFICE_LON |-> Dec(78374825, 6),
     GEOFENCE_RADIUS_METERS |-> 100]

\* the module's globals before line 7 has run
NoGlobals == [name \in {} |-> None]

\* The names an interpreter's builtins may bind besides the standard
\* ones: none, as in a plain interpreter, or __app__.
Environments == {{}, {"__app__"}}

\* Importing app.py where the builtins bind the names b: the NameError of
\* line 4, or the globals lines 7-9 bind.
import_app(b) ==
    IF "__app__" \in b THEN Return(InitialGlobals) ELSE Raise("NameError")

OutsideMessage == "Outside office - Clock In/Out enabled"

InsideMessage == "Inside office - Clock In/Out disabled"

\* lines 197-200 with >= for >
decide_ge(dist, radius) ==
    IF ~FGreater(FromInt(radius), dist)
    THEN [allowed |-> TRUE, message |-> OutsideMessage, distance |-> dist]
    ELSE [allowed |-> FALSE, message |-> InsideMessage, distance |-> dist]

\* lines 197-200 with the comparison turned round
decide_inverted(dist, radius) ==
    IF FGreater(FromInt(radius), dist)
    THEN [allowed |-> TRUE, message |-> OutsideMessage, distance |-> dist]
    ELSE [allowed |-> FALSE, message |-> InsideMessage, distance |-> dist]

\* lines 197-200 with one message on both branches
decide_one_message(dist, radius) ==
    IF FGreater(dist, FromInt(radius))
    THEN [allowed |-> TRUE, message |-> OutsideMessage, distance |-> dist]
    ELSE [allowed |-> FALSE, message |-> OutsideMessage, distance |-> dist]

\* lines 197-200: the body of the response.  radius is an int; Python
\* compares a float with an int by value, which FromInt keeps exactly
decide(dist, radius) ==
    IF FGreater(dist, FromInt(radius))
    THEN [allowed |-> TRUE, message |-> OutsideMessage, distance |-> dist]
    ELSE [allowed |-> FALSE, message |-> InsideMessage, distance |-> dist]

Ok(json) == [status |-> 200, json |-> json]

InternalServerError(e) == [status |-> 500, exception |-> e]

\* the frame g laid over the frame f
With(f, g) == g @@ f

Finish(f, response) == With(f, [pc |-> "done", response |-> response])

\* line 190
begin(body) == [pc |-> "parse", data |-> body]

\* lines 191-192, given what the two float() calls came to
bind_floats(f, user_lat, user_lon) ==
    IF Raised(user_lat) THEN Finish(f, InternalServerError(user_lat.exc))
    ELSE IF Raised(user_lon)
         THEN Finish(With(f, [user_lat |-> user_lat.value]),
                     InternalServerError(user_lon.exc))
    ELSE With(f, [pc |-> "measure", user_lat |-> user_lat.value,
                  user_lon |-> user_lon.value])

\* float(v) for what data.get returned, or the exception it raised
float_of(got) == IF Raised(got) THEN got ELSE float(got.value)

\* lines 191-192
parse_input(f) ==
    bind_floats(f, float_of(dict_get(f.data, "latitude")),
                float_of(dict_get(f.data, "longitude")))

JsonBody(lat, lon) == PyDict(("latitude" :> lat) @@ ("longitude" :> lon))

Point(lat, lon) == [lat |-> lat, lon |-> lon]

\* the office, lines 7-8
Office == Point(InitialGlobals.OFFICE_LAT, InitialGlobals.OFFICE_LON)

\* 0.002 degrees north of the office, some 222 m away
Outside == Point(Dec(17439391, 6), Dec(78374825, 6))

\* (17.438284211035544, 78.3747153): exactly 100.0 m from the office
Boundary ==
    Point(DecBig(0, BigOfDigits(<<1, 7, 4, 3, 8, 2, 8, 4, 2,
                                  1, 1, 0, 3, 5, 5, 4, 4>>), 15),
          Dec(783747153, 7))

\* (17.438284211035548, 78.3747153): the next latitude after Boundary's
Beyond ==
    Point(DecBig(0, BigOfDigits(<<1, 7, 4, 3, 8, 2, 8, 4, 2,
                                  1, 1, 0, 3, 5, 5, 4, 8>>), 15),
          Dec(783747153, 7))

\* the office of the second fixture, and 0.002 degrees north of it
Office2 == Point(Dec(17436923, 6), Dec(78373906, 6))

North2 == Point(Dec(17438923, 6), Dec(78373906, 6))

\* (-17.4373910092, -101.625175): across the globe from the office, where
\* line 17 rounds a to the float above 1
Antipode ==
    Point(DecBig(1, BigOfDigits(<<1, 7, 4, 3, 7, 3, 9, 1, 0, 0, 9, 2>>), 10),
          Dec(-101625175, 6))

\* a point far south and west
Far == Point(FromInt(-60), FromInt(-170))

\* The request bodies the model sends, in no particular order.
Bodies ==
    << JsonBody(PyFloat(Office.lat), PyFloat(Office.lon)),
       JsonBody(PyFloat(Outside.lat), PyFloat(Outside.lon)),
       JsonBody(PyFloat(Boundary.lat), PyFloat(Boundary.lon)),
       JsonBody(PyFloat(Beyond.lat), PyFloat(Beyond.lon)),
       \* "17.437391" and "78.374825"
       JsonBody(PyStr(<<49, 55, 46, 52, 51, 55, 51, 57, 49>>),
                PyStr(<<55, 56, 46, 51, 55, 52, 56, 50, 53>>)),
       PyDict("longitude" :> PyFloat(Office.lon)),
       JsonBody(PyFloat(Office.lat), None),
       \* "abc"
       JsonBody(PyStr(<<97, 98, 99>>), PyFloat(Office.lon)),
       JsonBody(PyBool(TRUE), PyFloat(Office.lon)),
       JsonBody(PyInt(91), PyFloat(Office.lon)),
       JsonBody(PyFloat(Office.lat), PyInt(181)),
       \* "1e1" and "nan"
       JsonBody(PyStr(<<49, 101, 49>>), PyFloat(Office.lon)),
       JsonBody(PyStr(<<110, 97, 110>>), PyFloat(Office.lon)),
       PyList,
       \* the office again: its latitude after a no-break space, and its
       \* longitude in Arabic-Indic digits with an ideographic space at the end
       JsonBody(PyStr(<<160, 49, 55, 46, 52, 51, 55, 51, 57, 49>>),
                PyStr(<<1639, 1640, 46, 1635, 1639, 1636, 1640, 1634, 1637, 12288>>)),
       \* the int 10^400
       JsonBody(PyLong(0, BigPow10(400)), PyFloat(Office.lon)),
       JsonBody(PyFloat(Antipode.lat), PyFloat(Antipode.lon)) >>

\* The points haversine is applied to, two at a time.
Points == {Office, Office2, North2, Antipode, Far}

Radii == {0, 100, 150}

\* line 194, given what haversine came to
bind_distance(f, distance) ==
    IF Raised(distance) THEN Finish(f, InternalServerError(distance.exc))
    ELSE With(f, [pc |-> "decide", distance |-> distance.value])

\* lines 194-195, for every result of haversine: the frame, and what libm
\* has then answered.  The print reads distance and changes nothing.
measure(f, lib, office_lat, office_lon) ==
    {[frame |-> bind_distance(f, Outcome(d)), libm |-> d.libm] :
        d \in haversine(lib, f.user_lat, f.user_lon, office_lat, office_lon)}

\* lines 197-200
respond(f, radius) == Finish(f, Ok(decide(f.distance, radius)))

\* the response of a frame when it is done, else that of next
response_or(f, next) == IF f.pc = "done" THEN f.response ELSE next

\* check_access from line 194 to its end
run_measured(f, radius) == response_or(f, respond(f, radius).response)

\* check_access from line 191 to its end
run_parsed(f, lib, office_lat, office_lon, radius) ==
    IF f.pc = "done" THEN {[response |-> f.response, libm |-> lib]}
    ELSE {[response |-> run_measured(m.frame, radius), libm |-> m.libm] :
             m \in measure(f, lib, office_lat, office_lon)}

\* check_access run from start to end on its own, with the globals given:
\* every response it may give, and what libm has then answered
check_access_in(lib, body, office_lat, office_lon, radius) ==
    run_parsed(parse_input(begin(body)), lib, office_lat, office_lon, radius)

\* what body k may be answered when it is the only request made, by a
\* build whose libm has answered lib
solo_response(lib, k) ==
    {d.response :
        d \in check_access_in(lib, Bodies[k], InitialGlobals.OFFICE_LAT,
                              InitialGlobals.OFFICE_LON,
                              InitialGlobals.GEOFENCE_RADIUS_METERS)}

\* a step of check_access that rebinds a global
handler_globals_rebound(g, f) ==
    IF "user_lat" \in DOMAIN f THEN [g EXCEPT !.OFFICE_LAT = f.user_lat] ELSE g

\* The globals after a step of check_access on frame f: the function has
\* no global statement and assigns none of them.
handler_globals(g, f) == g

----------------------------------------------------------------------------
(* The page's script.  The model keeps readings, the Clock In/Out button   *)
(* and what is in flight between the page and its environment: the         *)
(* geolocation callbacks, the fetches, and the online and offline events   *)
(* the browser has queued.  The status, coordinate and distance texts and  *)
(* the map are outputs nothing in the script reads back.                   *)

\* line 62
NUM_READINGS == 5

\* the positions the device reports, one for each click in turn
Positions ==
    <<Office, Outside, Boundary>>

PositionAt(click) == Positions[((click - 1) % Len(Positions)) + 1]

\* line 50: disabled, style="display:none;"
InitialButton == [display |-> "none", disabled |-> TRUE]

\* lines 129-130: rs.reduce((a, b) => a + b[key], 0)
RECURSIVE reduce_add(_, _)
reduce_add(rs, key) ==
    IF Len(rs) = 0 THEN FZero
    ELSE FAdd(reduce_add(SubSeq(rs, 1, Len(rs) - 1), key), rs[Len(rs)][key])

\* lines 129-130: the average of the readings' key
average(rs, key) == FDiv(reduce_add(rs, key), FromInt(NUM_READINGS))

\* lines 148-153 without the test of navigator.onLine
show_button_unless_denied(btn, data, onLine) ==
    IF data.allowed
    THEN [display |-> "inline-block", disabled |-> FALSE]
    ELSE [btn EXCEPT !.display = "none"]

\* lines 147-153: the button after a response's data is handled
show_button(btn, data, onLine) ==
    IF data.allowed /\ onLine
    THEN [display |-> "inline-block", disabled |-> FALSE]
    ELSE [btn EXCEPT !.display = "none"]

\* lines 87-94: the button after updateOnlineStatus
updateOnlineStatus(btn, onLine) ==
    IF ~onLine THEN [btn EXCEPT !.display = "none"] ELSE btn

\* the data of a response: allowed is all of it the button depends on
ResponseData == [allowed : BOOLEAN]

NoData == [none |-> TRUE]

----------------------------------------------------------------------------
(* Bounds *)

\* requests to /check_access
MaxRequests == 2

\* clicks on Check My Access that pass the online test
MaxClicks == 2

\* changes of navigator.onLine
MaxFlips == 2

----------------------------------------------------------------------------
(* State *)

VARIABLES
    builtins,         \* the names the interpreter's builtins bind
    app,              \* the import of app.py: its state, or its exception
    globals,          \* the module globals of app.py
    req,              \* the frame of check_access for each request
    libm,             \* what the build's libm has answered so far
    pureIn,           \* two points and a radius
    pureOut,          \* the distances both ways and the decision, once applied
    readings,         \* line 61; each reading with the click that asked for it
    clockBtn,         \* display and disabled of #clockBtn, once there is a page
    navigator_onLine, \* navigator.onLine
    hasGeolocation,   \* whether navigator.geolocation is there
    clicks,           \* getLocation calls that passed the online test
    outstanding,      \* per click, getCurrentPosition calls not yet answered
    posted,           \* the POSTs made, in order
    fetches,          \* the POSTs whose response has not come
    eventQueue,       \* online and offline events queued, not yet handled
    flips,            \* changes of navigator.onLine so far
    lastData,         \* the response handled last, and navigator.onLine then
    offlineHandled,   \* an offline event was handled since
    offlineSeen       \* updateOnlineStatus found navigator.onLine false since

serverVars == <<builtins, app, globals, req, libm>>

pureVars == <<pureIn, pureOut>>

pageVars ==
    <<readings, clockBtn, navigator_onLine, hasGeolocation, clicks, outstanding,
      posted, fetches, eventQueue, flips, lastData, offlineHandled, offlineSeen>>

vars == <<serverVars, pureVars, pageVars>>

\* Before app.py is imported: nothing of it is bound, and no request can
\* be received.
InitServer ==
    /\ builtins \in Environments
    /\ app = "unimported"
    /\ globals = NoGlobals
    /\ req = [i \in 1..MaxRequests |-> [pc |-> "idle"]]
    /\ libm = NoCalls

PureAtRest ==
    /\ pureIn = NoData
    /\ pureOut = NoData

\* a browser that has not loaded the page
NoPage(onLine, geo) ==
    /\ readings = << >>
    /\ clockBtn = NoData
    /\ navigator_onLine = onLine
    /\ hasGeolocation = geo
    /\ clicks = 0
    /\ outstanding = [c \in 1..MaxClicks |-> 0]
    /\ posted = << >>
    /\ fetches = {}
    /\ eventQueue = << >>
    /\ flips = 0
    /\ lastData = NoData
    /\ offlineHandled = FALSE
    /\ offlineSeen = FALSE

\* the import has run to its end and the routes are served
Serving == app = "Flask"

\* the browser has loaded the page
Loaded == clockBtn # NoData

\* Lines 1-9, and the rest of the file's top level: where line 4 raises,
\* the import ends there with nothing bound; else the globals are bound
\* and the routes registered.
Import ==
    /\ app = "unimported"
    /\ IF Raised(import_app(builtins))
       THEN /\ app' = import_app(builtins).exc
            /\ globals' = globals
       ELSE /\ app' = "Flask"
            /\ globals' = import_app(builtins).value
    /\ UNCHANGED <<builtins, req, libm, pureVars, pageVars>>

----------------------------------------------------------------------------
(* Spec: the import, and requests to /check_access, interleaved *)

\* line 190
Receive(i, k) ==
    /\ Serving
    /\ req[i].pc = "idle"
    /\ req' = [req EXCEPT ![i] = With(begin(Bodies[k]), [body |-> k])]
    /\ globals' = handler_globals(globals, req'[i])
    /\ UNCHANGED <<builtins, app, libm, pureVars, pageVars>>

\* lines 191-192
ParseInput(i) ==
    /\ req[i].pc = "parse"
    /\ req' = [req EXCEPT ![i] = parse_input(req[i])]
    /\ globals' = handler_globals(globals, req'[i])
    /\ UNCHANGED <<builtins, app, libm, pureVars, pageVars>>

\* lines 194-195
Measure(i) ==
    /\ req[i].pc = "measure"
    /\ \E m \in measure(req[i], libm, globals.OFFICE_LAT, globals.OFFICE_LON) :
          /\ req' = [req EXCEPT ![i] = m.frame]
          /\ libm' = m.libm
    /\ globals' = handler_globals(globals, req'[i])
    /\ UNCHANGED <<builtins, app, pureVars, pageVars>>

\* lines 197-200
Decide(i) ==
    /\ req[i].pc = "decide"
    /\ req' = [req EXCEPT ![i] = respond(req[i], globals.GEOFENCE_RADIUS_METERS)]
    /\ globals' = handler_globals(globals, req'[i])
    /\ UNCHANGED <<builtins, app, libm, pureVars, pageVars>>

Init ==
    /\ InitServer
    /\ PureAtRest
    /\ NoPage(TRUE, TRUE)

Next ==
    \/ Import
    \/ \E i \in 1..MaxRequests :
          \/ \E k \in 1..Len(Bodies) : Receive(i, k)
          \/ ParseInput(i)
          \/ Measure(i)
          \/ Decide(i)

Spec == Init /\ [][Next]_vars

----------------------------------------------------------------------------
(* SpecPure: the import, then haversine and the decision applied to two   *)
(* points and a radius                                                    *)

Apply ==
    /\ Serving
    /\ pureOut = NoData
    /\ \E ab \in haversine(libm, pureIn.p.lat, pureIn.p.lon,
                           pureIn.q.lat, pureIn.q.lon) :
       \E ba \in haversine(ab.libm, pureIn.q.lat, pureIn.q.lon,
                           pureIn.p.lat, pureIn.p.lon) :
       \E d \in check_access_in(ba.libm,
                                JsonBody(PyFloat(pureIn.p.lat), PyFloat(pureIn.p.lon)),
                                pureIn.q.lat, pureIn.q.lon, pureIn.radius) :
          /\ pureOut' = [distAB   |-> Outcome(ab),
                         distBA   |-> Outcome(ba),
                         decision |-> d.response]
          /\ libm' = d.libm
    /\ UNCHANGED <<pureIn, builtins, app, globals, req, pageVars>>

InitPure ==
    /\ pureIn \in [p : Points, q : Points, radius : Radii]
    /\ pureOut = NoData
    /\ InitServer
    /\ NoPage(TRUE, TRUE)

NextPure ==
    \/ Import
    \/ Apply

SpecPure == InitPure /\ [][NextPure]_vars

----------------------------------------------------------------------------
(* SpecPage: the import, and the page's script and its environment *)

\* GET /: lines 184-186 render the page, and its script runs to its end,
\* line 98 included
LoadPage ==
    /\ Serving
    /\ ~Loaded
    /\ readings' = << >>
    /\ clockBtn' = updateOnlineStatus(InitialButton, navigator_onLine)
    /\ UNCHANGED <<navigator_onLine, hasGeolocation, clicks, outstanding, posted,
                   fetches, eventQueue, flips, lastData, offlineHandled,
                   offlineSeen>>
    /\ UNCHANGED <<serverVars, pureVars>>

\* lines 100-120, online: a click on Check My Access
GetLocation ==
    /\ Loaded
    /\ navigator_onLine
    /\ clicks < MaxClicks
    /\ clicks' = clicks + 1
    /\ readings' = << >>
    /\ outstanding' =
          [outstanding EXCEPT ![clicks + 1] = IF hasGeolocation THEN NUM_READINGS ELSE 0]
    /\ UNCHANGED <<clockBtn, navigator_onLine, hasGeolocation, posted, fetches,
                   eventQueue, flips, lastData, offlineHandled, offlineSeen>>
    /\ UNCHANGED <<serverVars, pureVars>>

\* lines 101-104: a click while offline sets the status text and returns
GetLocationOffline ==
    /\ Loaded
    /\ ~navigator_onLine
    /\ UNCHANGED vars

\* lines 135-140: the POST of (lat, lon); rs are the readings it averages
\* and latest is the last click so far
sendPosition(rs, latest) ==
    [lat    |-> average(rs, "lat"),
     lon    |-> average(rs, "lon"),
     clicks |-> {rs[n].click : n \in 1..Len(rs)},
     latest |-> latest]

\* lines 122-133: a position comes for one of the calls click c made
SaveReading(c) ==
    /\ outstanding[c] > 0
    /\ outstanding' = [outstanding EXCEPT ![c] = outstanding[c] - 1]
    /\ readings' = Append(readings, [lat   |-> PositionAt(c).lat,
                                      lon   |-> PositionAt(c).lon,
                                      click |-> c])
    /\ IF Len(readings') = NUM_READINGS
       THEN /\ posted' = Append(posted, sendPosition(readings', clicks))
            /\ fetches' = fetches \cup {Len(posted')}
       ELSE UNCHANGED <<posted, fetches>>
    /\ UNCHANGED <<clockBtn, navigator_onLine, hasGeolocation, clicks, eventQueue,
                   flips, lastData, offlineHandled, offlineSeen>>
    /\ UNCHANGED <<serverVars, pureVars>>

\* lines 164-178: an error comes for one of the calls click c made; it
\* sets the status text
ShowError(c) ==
    /\ outstanding[c] > 0
    /\ outstanding' = [outstanding EXCEPT ![c] = outstanding[c] - 1]
    /\ UNCHANGED <<readings, clockBtn, navigator_onLine, hasGeolocation, clicks,
                   posted, fetches, eventQueue, flips, lastData, offlineHandled,
                   offlineSeen>>
    /\ UNCHANGED <<serverVars, pureVars>>

\* lines 141-161: the response to POST n comes with a JSON body data
ProcessResponse(n, data) ==
    /\ n \in fetches
    /\ fetches' = fetches \ {n}
    /\ clockBtn' = show_button(clockBtn, data, navigator_onLine)
    /\ lastData' = [allowed |-> data.allowed, onLine |-> navigator_onLine]
    /\ offlineHandled' = FALSE
    /\ offlineSeen' = FALSE
    /\ UNCHANGED <<readings, navigator_onLine, hasGeolocation, clicks, outstanding,
                   posted, eventQueue, flips>>
    /\ UNCHANGED <<serverVars, pureVars>>

\* lines 136-141: the fetch of POST n fails, or its response has no JSON
\* body; the promise is rejected and nothing handles that
FetchFails(n) ==
    /\ n \in fetches
    /\ fetches' = fetches \ {n}
    /\ UNCHANGED <<readings, clockBtn, navigator_onLine, hasGeolocation, clicks,
                   outstanding, posted, eventQueue, flips, lastData, offlineHandled,
                   offlineSeen>>
    /\ UNCHANGED <<serverVars, pureVars>>

\* the browser loses or gets back the network: navigator.onLine changes
\* and the event is queued for the page, whose listeners lines 96-97 have
\* registered
ConnectionChanges ==
    /\ Loaded
    /\ flips < MaxFlips
    /\ flips' = flips + 1
    /\ navigator_onLine' = ~navigator_onLine
    /\ eventQueue' = Append(eventQueue, IF navigator_onLine THEN "offline" ELSE "online")
    /\ UNCHANGED <<readings, clockBtn, hasGeolocation, clicks, outstanding, posted,
                   fetches, lastData, offlineHandled, offlineSeen>>
    /\ UNCHANGED <<serverVars, pureVars>>

\* lines 96-97: the page handles the next queued event; updateOnlineStatus
\* reads navigator.onLine as it is now
HandleEvent ==
    /\ eventQueue # << >>
    /\ eventQueue' = Tail(eventQueue)
    /\ clockBtn' = updateOnlineStatus(clockBtn, navigator_onLine)
    /\ offlineHandled' = (offlineHandled \/ Head(eventQueue) = "offline")
    /\ offlineSeen' = (offlineSeen \/ ~navigator_onLine)
    /\ UNCHANGED <<readings, navigator_onLine, hasGeolocation, clicks, outstanding,
                   posted, fetches, flips, lastData>>
    /\ UNCHANGED <<serverVars, pureVars>>

InitPage ==
    /\ InitServer
    /\ PureAtRest
    /\ \E onLine \in BOOLEAN, geo \in BOOLEAN : NoPage(onLine, geo)

NextPage ==
    \/ Import
    \/ LoadPage
    \/ GetLocation
    \/ GetLocationOffline
    \/ \E c \in 1..MaxClicks : SaveReading(c)
    \/ \E c \in 1..MaxClicks : ShowError(c)
    \/ \E n \in 1..MaxClicks, data \in ResponseData : ProcessResponse(n, data)
    \/ \E n \in 1..MaxClicks : FetchFails(n)
    \/ ConnectionChanges
    \/ HandleEvent

SpecPage == InitPage /\ [][NextPage]_vars

----------------------------------------------------------------------------
(* The claims *)

Done(i) == req[i].pc = "done"

Answered(i) == Done(i) /\ req[i].response.status = 200

Radius == FromInt(globals.GEOFENCE_RADIUS_METERS)

\* C1: a request check_access answers is allowed exactly when its distance
\* from the office is greater than GEOFENCE_RADIUS_METERS; at a distance
\* of exactly the radius allowed is false.  (Requests are answered only
\* where the import has run to its end.)
C1_AllowedIffBeyondRadius ==
    \A i \in 1..MaxRequests :
        Answered(i) =>
            /\ req[i].response.json.allowed = FGreater(req[i].distance, Radius)
            /\ (req[i].distance = Radius => ~req[i].response.json.allowed)

\* a request at exactly the radius was denied and one just beyond it allowed
C1_AtAndBeyondRadius ==
    \E i, j \in 1..MaxRequests :
        /\ Answered(i) /\ req[i].distance = Radius
        /\ ~req[i].response.json.allowed
        /\ Answered(j) /\ req[j].body = 4
        /\ req[j].response.json.allowed

\* a JSON number, or a string float() reads as one
Numeric(v) ==
    \/ v.type \in {"int", "float"}
    \/ v.type = "str" /\ ~Raised(float_of_str(v.value))

MissingOrNonNumeric(body, key) ==
    \/ body.type # "dict"
    \/ key \notin DOMAIN body.value
    \/ ~Numeric(body.value[key])

BadInput(body) ==
    MissingOrNonNumeric(body, "latitude") \/ MissingOrNonNumeric(body, "longitude")

\* C2: a request whose latitude or longitude is missing or non-numeric is
\* answered with a client error (4xx) and never with a decision.  (Where
\* the import fails no request is answered at all.)
C2_BadInputIsClientError ==
    \A i \in 1..MaxRequests :
        (Done(i) /\ BadInput(Bodies[req[i].body])) =>
            req[i].response.status \in 400..499

Parsed(i) == "user_lat" \in DOMAIN req[i] /\ "user_lon" \in DOMAIN req[i]

Beyond90(x) == FGreater(x, FromInt(90)) \/ FGreater(FromInt(-90), x)

Beyond180(x) == FGreater(x, FromInt(180)) \/ FGreater(FromInt(-180), x)

\* C3: a request whose latitude is outside [-90, 90] or whose longitude is
\* outside [-180, 180] is answered with a client error (4xx), not with a
\* decision.
C3_OutOfRangeIsClientError ==
    \A i \in 1..MaxRequests :
        (Done(i) /\ Parsed(i)
            /\ (Beyond90(req[i].user_lat) \/ Beyond180(req[i].user_lon))) =>
            req[i].response.status \in 400..499

Applied == pureOut # NoData

\* C4: a position equal to the office is at distance 0, and the answer to
\* it has allowed false, whatever the radius (0 included).
C4_AtOfficeDenied ==
    (Applied /\ pureIn.p = pureIn.q) =>
        /\ pureOut.distAB = Return(FZero)
        /\ pureOut.decision.status = 200
        /\ pureOut.decision.json.distance = FZero
        /\ ~pureOut.decision.json.allowed

\* the configured office reported as the position, with radius 0
C4_AtOfficeRadiusZero ==
    /\ Applied
    /\ pureIn.p = Office /\ pureIn.q = Office
    /\ pureIn.radius = 0
    /\ pureOut.decision.status = 200

\* C5: every answer of check_access has the keys allowed, message and
\* distance and no other; message is the outside text when allowed and the
\* inside text when not; distance is the value that was compared.
C5_ResponseShape ==
    \A i \in 1..MaxRequests :
        Answered(i) =>
            /\ DOMAIN req[i].response.json = {"allowed", "message", "distance"}
            /\ req[i].response.json.message =
                  (IF req[i].response.json.allowed THEN OutsideMessage
                   ELSE InsideMessage)
            /\ req[i].response.json.distance = req[i].distance

\* one request was answered allowed and another denied
C5_BothMessages ==
    \E i, j \in 1..MaxRequests :
        /\ Answered(i) /\ req[i].response.json.message = OutsideMessage
        /\ Answered(j) /\ req[j].response.json.message = InsideMessage

\* C6: once the import has bound them, and however the requests
\* interleave, the globals keep their values of startup, and every request
\* is answered what it would be answered alone (by the same build: libm
\* answers alone as it answered here).
C6_RequestsIndependent ==
    /\ Serving => globals = InitialGlobals
    /\ \A i \in 1..MaxRequests :
          Done(i) => req[i].response \in solo_response(libm, req[i].body)

\* a request was answered while another, with another body, was between
\* its distance and its decision
C6_AnsweredDuringAnother ==
    \E i, j \in 1..MaxRequests :
        /\ Answered(i)
        /\ req[j].pc = "decide"
        /\ req[j].body # req[i].body

\* C7: haversine(a, b) = haversine(b, a).
C7_HaversineSymmetric ==
    Applied => pureOut.distAB = pureOut.distBA

\* two points at different latitudes, a distance apart
C7_DistinctPoints ==
    /\ Applied
    /\ pureIn.p.lat # pureIn.q.lat
    /\ ~Raised(pureOut.distAB)
    /\ pureOut.distAB.value # FZero
    /\ ~Raised(pureOut.distBA)

\* C8: haversine returns a distance >= 0 for every two valid points, and
\* check_access answers a valid position with a distance >= 0 from the
\* office.
C8_HaversineNonNegative ==
    Applied =>
        /\ ~Raised(pureOut.distAB)
        /\ pureOut.distAB.value.s = 0
        /\ (pureIn.q = Office =>
               /\ pureOut.decision.status = 200
               /\ pureOut.decision.json.distance.s = 0)

Shown == Loaded /\ clockBtn.display = "inline-block" /\ ~clockBtn.disabled

Responded == lastData # NoData

\* C9: in the page, once loaded, the button starts hidden and disabled (it
\* is as line 50 has it while no response has been handled); it is
\* displayed and enabled only if the response handled last had allowed
\* true, navigator.onLine was true when it was handled, and no run of
\* updateOnlineStatus since has found navigator.onLine false.
C9_ShownOnlyIfAllowedOnline ==
    /\ (Loaded /\ ~Responded) => clockBtn = InitialButton
    /\ Shown => (/\ Responded
                 /\ lastData.allowed
                 /\ lastData.onLine
                 /\ ~offlineSeen)

\* C9 as stated: ... and no offline event has been handled since.
C9_NoOfflineEventSince ==
    /\ (Loaded /\ ~Responded) => clockBtn = InitialButton
    /\ Shown => (/\ Responded
                 /\ lastData.allowed
                 /\ lastData.onLine
                 /\ ~offlineHandled)

\* the button is displayed and enabled after an offline event was handled
C9_ShownAfterOfflineEvent ==
    /\ Shown
    /\ offlineHandled
    /\ eventQueue = << >>

\* C10: every position POSTed is the average of NUM_READINGS readings that
\* all come from the latest call of getLocation.
C10_ReadingsOfLatestClick ==
    \A n \in 1..Len(posted) : posted[n].clicks = {posted[n].latest}

====
